---- MODULE Spec2Model ----
(***************************************************************************)
(* Model of the radix tree (package radix), of the sorted set of strings   *)
(* (package util) and of AddVary (package headers). Strings are sequences  *)
(* of byte values; the nodes of the tree live in an arena and a *node is   *)
(* an index into it.                                                       *)
(***************************************************************************)
EXTENDS Integers, Sequences, FiniteSets, TLC

\* ---------------------------------------------------------------- bounds
MaxPatLen == 2       \* longest key pattern given to Insert (leading '*' included)
MaxKeyLen == 3       \* longest key given to Contains
MaxTag == 2          \* ordinary tags are 1..MaxTag
MaxInserts == 3      \* number of Insert calls in a run
MaxNameLen == 1      \* longest string handed to NewSortedSet
MaxElems == 2        \* longest list handed to NewSortedSet
MaxCsvLen == 3       \* longest csv handed to Subsumes
MaxAdds == 3         \* number of AddVary calls in a run

\* ------------------------------------------------------- program constants
Star == 42           \* '*'
Comma == 44          \* ','
WildcardElem == -1
Nil == 0             \* the nil *node
Root == 1            \* &t.root

Letters == {97, 98}  \* the bytes 'a' and 'b' stand for all ordinary bytes
Bytes == Letters \cup {Star}
Tags == {WildcardElem} \cup (1..MaxTag)

SeqsUpTo(S, n) == UNION {[1..k -> S] : k \in 0..n}
Patterns == SeqsUpTo(Bytes, MaxPatLen)
Keys == SeqsUpTo(Bytes, MaxKeyLen)
NameBytes == Letters \cup {Comma}
Names == SeqsUpTo(NameBytes, MaxNameLen)
NameLists == SeqsUpTo(Names, MaxElems)
Csvs == SeqsUpTo(NameBytes, MaxCsvLen)

VARIABLES nodes,     \* the arena of nodes of the Tree; nodes[Root] is t.root
          inserted,  \* history: the (pattern, tag) pairs given to Insert so far
          call,      \* the last call made on the tree
          ninserts,  \* number of Insert calls made so far
          elemsIn,   \* the sequence handed to NewSortedSet, as it was before the call
          elems,     \* the same caller-owned sequence, as it is now
          sortedSet, \* the SortedSet: its map m and its maxLen
          built,     \* whether NewSortedSet has returned
          setCall,   \* the last call made on the set
          subsumes,  \* result of the last Subsumes call
          combined,  \* result of the last String call
          size,      \* result of the last Size call
          hdrs,      \* the http.Header handed to AddVary: a map from keys to value sequences
          hdrs0,     \* history: hdrs as it was before the first AddVary call
          added,     \* history: the values given to AddVary so far, in call order
          readers,   \* the goroutines querying a built tree or set: the call each one makes
          locals     \* the local variables of each goroutine's call

treeVars == <<nodes, inserted, call, ninserts>>
setVars == <<elemsIn, elems, sortedSet, built, setCall, subsumes, combined, size>>
hdrVars == <<hdrs, hdrs0, added>>
readerVars == <<readers, locals>>
vars == <<treeVars, setVars, hdrVars, readerVars>>

\* ------------------------------------------------------------ radix tree
NoEdges == [b \in Bytes |-> Nil]
EmptyNode == [suffix |-> <<>>, edges |-> NoEdges, set |-> {}, wildcardSet |-> {}]

HasStarPrefix(str) == Len(str) > 0 /\ str[1] = Star

lastByteIn(str) == str[Len(str)]

splitRight(str, length) ==
  LET j == Len(str) - length
  IN <<SubSeq(str, 1, j), SubSeq(str, j + 1, Len(str))>>

RECURSIVE CommonSuffixLoop(_, _, _)
\* the loop of lengthOfCommonSuffix: i runs from len(a)-1 down (0-based)
CommonSuffixLoop(a, b, i) ==
  IF 0 <= i /\ a[i + 1] = b[i + 1] THEN CommonSuffixLoop(a, b, i - 1) ELSE i

lengthOfCommonSuffix(a0, b0) ==
  LET a == IF Len(b0) < Len(a0) THEN b0 ELSE a0
      b1 == IF Len(b0) < Len(a0) THEN a0 ELSE b0
      b == SubSeq(b1, Len(b1) - Len(a) + 1, Len(b1))
  IN Len(a) - 1 - CommonSuffixLoop(a, b, Len(a) - 1)

\* add with the wildcardPattern flag ignored: always the regular set
addToRegularSet(ns, n, elem, wildcardPattern) ==
  LET set == ns[n].set
      new == IF elem = WildcardElem THEN {WildcardElem}
             ELSE IF set = {} THEN {elem}
             ELSE IF WildcardElem \in set THEN set
             ELSE set \cup {elem}
  IN [ns EXCEPT ![n].set = new]

\* add that always installs a fresh singleton for an ordinary elem
addOverwriting(ns, n, elem, wildcardPattern) ==
  LET new == IF elem = WildcardElem THEN {WildcardElem} ELSE {elem}
  IN IF wildcardPattern
       THEN [ns EXCEPT ![n].wildcardSet = new]
       ELSE [ns EXCEPT ![n].set = new]

\* node.add on node n of arena ns
add(ns, n, elem, wildcardPattern) ==
  LET set == IF wildcardPattern THEN ns[n].wildcardSet ELSE ns[n].set
      new == IF elem = WildcardElem THEN {WildcardElem}
             ELSE IF set = {} THEN {elem}
             ELSE IF WildcardElem \in set THEN set
             ELSE set \cup {elem}
  IN IF wildcardPattern
       THEN [ns EXCEPT ![n].wildcardSet = new]
       ELSE [ns EXCEPT ![n].set = new]

\* insertEdge that installs a fresh one-entry map every time
insertEdgeFreshMap(ns, n, label, child) ==
  [ns EXCEPT ![n].edges = [NoEdges EXCEPT ![label] = child]]

insertEdge(ns, n, label, child) == [ns EXCEPT ![n].edges[label] = child]

\* the test that ends the walk of Insert early at node n
InsertStopsAt(ns, n, v) == v \in ns[n].wildcardSet

\* search, _ = splitRight(search, length) with the two results swapped
remainingSearchSwapped(search, length) == splitRight(search, length)[2]

\* search, _ = splitRight(search, 0): nothing cut off
remainingSearchUncut(search, length) == splitRight(search, 0)[1]

\* search, _ = splitRight(search, length): what is left of the key to walk
remainingSearch(search, length) == splitRight(search, length)[1]

\* the byte one position past the overlap
byteBeforeSuffixOffByOne(suffix, suffixLen) == suffix[Len(suffix) - suffixLen + 1]

\* n.suffix[len(n.suffix)-1-suffixLen] (0-based): the byte before the overlap
byteBeforeSuffix(suffix, suffixLen) == suffix[Len(suffix) - suffixLen]

\* one iteration of the for loop of Insert, entered with current node n and
\* remaining key search. done tells whether the iteration returned; if not,
\* n and search are the ones the next iteration starts with.
InsertStep(ns, n, search, v, wildcardPattern) ==
  IF Len(search) = 0
  THEN [kind |-> "add", done |-> TRUE, ns |-> add(ns, n, v, wildcardPattern),
        n |-> n, search |-> search]
  ELSE IF InsertStopsAt(ns, n, v)
  THEN [kind |-> "stop", done |-> TRUE, ns |-> ns, n |-> n, search |-> search]
  ELSE
    LET parent == n
        label == lastByteIn(search)
        m == ns[parent].edges[label]
    IN IF m = Nil
       THEN \* no matching edge found; create one
         LET child == Len(ns) + 1
             ns1 == Append(ns, [EmptyNode EXCEPT !.suffix = search])
             ns2 == add(ns1, child, v, wildcardPattern)
         IN [kind |-> "leaf", done |-> TRUE,
             ns |-> insertEdge(ns2, parent, label, child), n |-> m, search |-> search]
       ELSE
         LET suffixLen == lengthOfCommonSuffix(search, ns[m].suffix)
         IN IF suffixLen = Len(ns[m].suffix)
            THEN [kind |-> "descend", done |-> FALSE, ns |-> ns, n |-> m,
                  search |-> remainingSearch(search, suffixLen)]
            ELSE \* split the node
              LET child == Len(ns) + 1
                  ns1 == Append(ns, [EmptyNode EXCEPT !.suffix = splitRight(search, suffixLen)[2]])
                  ns2 == insertEdge(ns1, parent, label, child)
                  ns3 == insertEdge(ns2, child, byteBeforeSuffix(ns2[m].suffix, suffixLen), m)
                  ns4 == [ns3 EXCEPT ![m].suffix = splitRight(ns3[m].suffix, suffixLen)[1]]
              IN IF Len(search) = suffixLen
                 THEN [kind |-> "splitHere", done |-> TRUE,
                       ns |-> add(ns4, child, v, wildcardPattern), n |-> m, search |-> search]
                 ELSE
                   LET rest == remainingSearch(search, suffixLen)
                       grandChild == Len(ns4) + 1
                       ns5 == Append(ns4, [EmptyNode EXCEPT !.suffix = rest])
                       ns6 == add(ns5, grandChild, v, wildcardPattern)
                       ns7 == insertEdge(ns6, child, lastByteIn(rest), grandChild)
                   IN \* the body ends here without a return: the loop goes
                      \* round again with n still the pre-existing node
                      [kind |-> "splitLeaf", done |-> FALSE, ns |-> ns7, n |-> m,
                       search |-> rest]

RECURSIVE InsertLoop(_, _, _, _, _)
\* the for loop of Insert
InsertLoop(ns, n, search, v, wildcardPattern) ==
  LET r == InsertStep(ns, n, search, v, wildcardPattern)
  IN IF r.done THEN r.ns
     ELSE InsertLoop(r.ns, r.n, r.search, v, wildcardPattern)

InsertResult(ns, keyPattern, v) ==
  LET wildcardPattern == HasStarPrefix(keyPattern)
      search == IF wildcardPattern THEN Tail(keyPattern) ELSE keyPattern
  IN InsertLoop(ns, Root, search, v, wildcardPattern)

HasSuffix(s, suffix) ==
  Len(suffix) <= Len(s) /\ SubSeq(s, Len(s) - Len(suffix) + 1, Len(s)) = suffix

\* one iteration of the for loop of Contains
ContainsStep(ns, n, search, v) ==
  IF Len(search) = 0
  THEN [done |-> TRUE, found |-> v \in ns[n].set \/ WildcardElem \in ns[n].set,
        n |-> n, search |-> search]
  ELSE IF v \in ns[n].wildcardSet \/ WildcardElem \in ns[n].wildcardSet
  THEN [done |-> TRUE, found |-> TRUE, n |-> n, search |-> search]
  ELSE LET m == ns[n].edges[lastByteIn(search)]
       IN IF m = Nil
          THEN [done |-> TRUE, found |-> FALSE, n |-> m, search |-> search]
          ELSE IF ~HasSuffix(search, ns[m].suffix)
          THEN [done |-> TRUE, found |-> FALSE, n |-> m, search |-> search]
          ELSE [done |-> FALSE, found |-> FALSE, n |-> m,
                search |-> remainingSearch(search, Len(ns[m].suffix))]

RECURSIVE ContainsLoop(_, _, _, _)
\* the for loop of Contains
ContainsLoop(ns, n, search, v) ==
  LET r == ContainsStep(ns, n, search, v)
  IN IF r.done THEN r.found ELSE ContainsLoop(ns, r.n, r.search, v)

Contains(ns, k, v) == ContainsLoop(ns, Root, k, v)

\* ------------------------------------------------------------ sorted set
Min(a, b) == IF a < b THEN a ELSE b
Max(a, b) == IF a < b THEN b ELSE a

RECURSIVE Less(_, _)
\* Go's < on strings: bytewise lexicographic, a proper prefix is smaller
Less(a, b) ==
  IF Len(b) = 0 THEN FALSE
  ELSE IF Len(a) = 0 THEN TRUE
  ELSE IF a[1] # b[1] THEN a[1] < b[1]
  ELSE Less(Tail(a), Tail(b))

RECURSIVE InsertSorted(_, _)
InsertSorted(sorted, e) ==
  IF Len(sorted) = 0 THEN <<e>>
  ELSE IF Less(e, sorted[1]) THEN <<e>> \o sorted
  ELSE <<sorted[1]>> \o InsertSorted(Tail(sorted), e)

\* the sort left out
SortStringsSkipped(s) == s

RECURSIVE SortStrings(_)
\* slices.Sort: the elements in ascending order
SortStrings(s) ==
  IF Len(s) = 0 THEN <<>>
  ELSE InsertSorted(SortStrings(Tail(s)), s[1])

\* the compaction left out
CompactSkipped(s) == s

RECURSIVE Compact(_)
\* slices.Compact: every run of equal consecutive elements becomes one copy
Compact(s) ==
  IF Len(s) < 2 THEN s
  ELSE IF s[1] = s[2] THEN Compact(Tail(s))
  ELSE <<s[1]>> \o Compact(Tail(s))

RECURSIVE BuildMap(_, _, _)
\* the range loop of NewSortedSet from 0-based index i on: m[s] = i
BuildMap(es, i, mp) ==
  IF i >= Len(es) THEN mp
  ELSE BuildMap(es, i + 1, (es[i + 1] :> i) @@ mp)

RECURSIVE BuildMaxLen(_, _, _)
BuildMaxLen(es, i, ml) ==
  IF i >= Len(es) THEN ml
  ELSE BuildMaxLen(es, i + 1, Max(ml, Len(es[i + 1])))

NoMap == [e \in {} |-> 0]

NewSortedSetResult(es) ==
  LET compacted == Compact(SortStrings(es))
  IN [m |-> BuildMap(compacted, 0, NoMap), maxLen |-> BuildMaxLen(compacted, 0, 0)]

\* what NewSortedSet leaves in the caller's sequence: sorted and compacted in
\* place; the entries past the compacted length are zeroed or left as sorted,
\* depending on the version of slices.Compact
CallerSliceAfter(es, zeroTail) ==
  LET sorted == SortStrings(es)
      compacted == Compact(sorted)
  IN [i \in 1..Len(es) |->
        IF i <= Len(compacted) THEN compacted[i]
        ELSE IF zeroTail THEN <<>> ELSE sorted[i]]

Size(set) == Cardinality(DOMAIN set.m)

RECURSIVE JoinTrailingSep(_, _)
\* a join that writes the separator after every element, the last included
JoinTrailingSep(ss, sep) ==
  IF Len(ss) = 0 THEN <<>>
  ELSE ss[1] \o sep \o JoinTrailingSep(Tail(ss), sep)

RECURSIVE Join(_, _)
\* strings.Join
Join(ss, sep) ==
  IF Len(ss) = 0 THEN <<>>
  ELSE IF Len(ss) = 1 THEN ss[1]
  ELSE ss[1] \o sep \o Join(Tail(ss), sep)

String(set) ==
  LET arr == [j \in 1..Cardinality(DOMAIN set.m) |->
                IF \E e \in DOMAIN set.m : set.m[e] = j - 1
                THEN CHOOSE e \in DOMAIN set.m : set.m[e] = j - 1
                ELSE <<>>]
  IN Join(arr, <<Comma>>)

RECURSIVE IndexByte(_, _, _)
\* strings.IndexByte, as a scan from 0-based index i; -1 when c is absent
IndexByte(s, c, i) ==
  IF i >= Len(s) THEN -1
  ELSE IF s[i + 1] = c THEN i
  ELSE IndexByte(s, c, i + 1)

\* cutAtComma searching the whole of s
cutAtCommaUnbounded(s, n) ==
  LET i == IndexByte(s, Comma, 0)
  IN IF i >= 0
     THEN [before |-> SubSeq(s, 1, i), after |-> SubSeq(s, i + 2, Len(s)), found |-> TRUE]
     ELSE [before |-> s, after |-> <<>>, found |-> FALSE]

\* cutAtComma looking at one byte less than n
cutAtCommaShortWindow(s, n) ==
  LET end == Min(Len(s), n - 1)
      i == IndexByte(SubSeq(s, 1, end), Comma, 0)
  IN IF i >= 0
     THEN [before |-> SubSeq(s, 1, i), after |-> SubSeq(s, i + 2, Len(s)), found |-> TRUE]
     ELSE [before |-> s, after |-> <<>>, found |-> FALSE]

cutAtComma(s, n) ==
  LET end == Min(Len(s), n)
      i == IndexByte(SubSeq(s, 1, end), Comma, 0)
  IN IF i >= 0
     THEN [before |-> SubSeq(s, 1, i), after |-> SubSeq(s, i + 2, Len(s)), found |-> TRUE]
     ELSE [before |-> s, after |-> <<>>, found |-> FALSE]

\* pos of pos, ok := set.m[name]: the zero value when name is not a key
PosOf(mp, name) == IF name \in DOMAIN mp THEN mp[name] ELSE 0

\* the order test with < in place of <=: a repeated name passes
NameAcceptedAllowingRepeats(mp, name, posOfLastNameSeen) ==
  name \in DOMAIN mp /\ ~(PosOf(mp, name) < posOfLastNameSeen)

\* the membership test left out: a missing name counts as position 0
NameAcceptedWithoutOk(mp, name, posOfLastNameSeen) ==
  ~(PosOf(mp, name) <= posOfLastNameSeen)

\* the two tests Subsumes makes on a name: it is a key of the map, and its
\* position is beyond posOfLastNameSeen
NameAccepted(mp, name, posOfLastNameSeen) ==
  name \in DOMAIN mp /\ ~(PosOf(mp, name) <= posOfLastNameSeen)

\* one iteration of the for loop of Subsumes on what is left of csv
SubsumesStep(mp, chunkSize, csv, posOfLastNameSeen) ==
  LET cut == cutAtComma(csv, chunkSize)
  IN IF ~NameAccepted(mp, cut.before, posOfLastNameSeen)
     THEN [done |-> TRUE, result |-> FALSE, csv |-> csv,
           posOfLastNameSeen |-> posOfLastNameSeen]
     ELSE IF ~cut.found
     THEN [done |-> TRUE, result |-> TRUE, csv |-> csv,
           posOfLastNameSeen |-> PosOf(mp, cut.before)]
     ELSE [done |-> FALSE, result |-> FALSE, csv |-> cut.after,
           posOfLastNameSeen |-> PosOf(mp, cut.before)]

RECURSIVE SubsumesLoop(_, _, _, _)
\* the for loop of Subsumes
SubsumesLoop(mp, chunkSize, csv, posOfLastNameSeen) ==
  LET r == SubsumesStep(mp, chunkSize, csv, posOfLastNameSeen)
  IN IF r.done THEN r.result
     ELSE SubsumesLoop(mp, chunkSize, r.csv, r.posOfLastNameSeen)

Subsumes(set, csv) ==
  IF csv = <<>> THEN TRUE
  ELSE SubsumesLoop(set.m, set.maxLen + 1, csv, -1)

\* --------------------------------------------------------------- headers
Vary == "Vary"
HdrKeys == {Vary, "Origin"}
HdrValues == {"x", "y"}   \* header values; their content plays no part
NoHeaders == [k \in {} |-> <<>>]
\* the maps AddVary may be handed: any of the keys present, each with
\* an empty value sequence or one value
InitialHeaders == UNION {[D -> SeqsUpTo(HdrValues, 1)] : D \in SUBSET HdrKeys}

\* AddVary as its comment words it: sgl assigned when the key is present
AddVaryAssigningWhenPresent(h, v, sgl) ==
  IF Vary \in DOMAIN h
  THEN [h EXCEPT ![Vary] = sgl]
  ELSE (Vary :> <<v>>) @@ h

\* the map after AddVary(hdrs, v, sgl)
AddVaryResult(h, v, sgl) ==
  IF Vary \notin DOMAIN h
  THEN (Vary :> sgl) @@ h                  \* fast path
  ELSE [h EXCEPT ![Vary] = Append(@, v)]   \* slow path

\* ------------------------------------------------------------- behaviour
NoCall == [op |-> "none", p |-> <<>>, v |-> 0]
NoSetCall == [op |-> "none", csv |-> <<>>]
EmptySet == [m |-> NoMap, maxLen |-> 0]

Goroutines == {1, 2}
\* a goroutine's call: its position, the query it runs, the query's
\* arguments and, once it has returned, its result
IdleReader == [pc |-> "idle", op |-> "none", key |-> <<>>, v |-> 0,
               found |-> FALSE, str |-> <<>>, num |-> 0]
\* the local variables of a query: n and search of Contains, csv and
\* posOfLastNameSeen of Subsumes
NoLocals == [n |-> Nil, search |-> <<>>, posOfLastNameSeen |-> 0]

TreeIdle ==
  /\ nodes = <<EmptyNode>>
  /\ inserted = {}
  /\ call = NoCall
  /\ ninserts = 0

SetIdle ==
  /\ elemsIn = <<>>
  /\ elems = <<>>
  /\ sortedSet = EmptySet
  /\ built = FALSE
  /\ setCall = NoSetCall
  /\ subsumes = FALSE
  /\ combined = <<>>
  /\ size = 0

HdrIdle ==
  /\ hdrs = NoHeaders
  /\ hdrs0 = NoHeaders
  /\ added = <<>>

ReadersIdle ==
  /\ readers = [g \in Goroutines |-> IdleReader]
  /\ locals = [g \in Goroutines |-> NoLocals]

Init ==
  /\ TreeIdle
  /\ SetIdle
  /\ HdrIdle
  /\ ReadersIdle

Insert(p, v) ==
  /\ ninserts < MaxInserts
  /\ ninserts' = ninserts + 1
  /\ nodes' = InsertResult(nodes, p, v)
  /\ inserted' = inserted \cup {<<p, v>>}
  /\ call' = [op |-> "Insert", p |-> p, v |-> v]
  /\ UNCHANGED <<setVars, hdrVars, readerVars>>

Next == \E p \in Patterns, v \in Tags : Insert(p, v)

Spec == Init /\ [][Next]_vars

\* the sorted set: the caller holds a sequence of names and builds the set
InitSet ==
  /\ TreeIdle
  /\ HdrIdle
  /\ ReadersIdle
  /\ elemsIn \in NameLists
  /\ elems = elemsIn
  /\ sortedSet = EmptySet
  /\ built = FALSE
  /\ setCall = NoSetCall
  /\ subsumes = FALSE
  /\ combined = <<>>
  /\ size = 0

\* a run builds one set and makes one query on it: the queries have value
\* receivers and write nothing, so a later query meets the same set
Queried == setCall.op \in {"Subsumes", "String", "Size"}

NewSortedSet ==
  /\ ~built
  /\ \E zeroTail \in BOOLEAN : elems' = CallerSliceAfter(elems, zeroTail)
  /\ sortedSet' = NewSortedSetResult(elems)
  /\ built' = TRUE
  /\ setCall' = [op |-> "NewSortedSet", csv |-> <<>>]
  /\ UNCHANGED <<elemsIn, subsumes, combined, size, treeVars, hdrVars, readerVars>>

CallSubsumes(csv) ==
  /\ built
  /\ ~Queried
  /\ subsumes' = Subsumes(sortedSet, csv)
  /\ setCall' = [op |-> "Subsumes", csv |-> csv]
  /\ UNCHANGED <<elemsIn, elems, sortedSet, built, combined, size, treeVars, hdrVars, readerVars>>

CallString ==
  /\ built
  /\ ~Queried
  /\ combined' = String(sortedSet)
  /\ setCall' = [op |-> "String", csv |-> <<>>]
  /\ UNCHANGED <<elemsIn, elems, sortedSet, built, subsumes, size, treeVars, hdrVars, readerVars>>

CallSize ==
  /\ built
  /\ ~Queried
  /\ size' = Size(sortedSet)
  /\ setCall' = [op |-> "Size", csv |-> <<>>]
  /\ UNCHANGED <<elemsIn, elems, sortedSet, built, subsumes, combined, treeVars, hdrVars, readerVars>>

NextSet ==
  \/ NewSortedSet
  \/ \E csv \in Csvs \cup {String(sortedSet)} : CallSubsumes(csv)
  \/ CallString
  \/ CallSize

SpecSet == InitSet /\ [][NextSet]_vars

\* the header map: a handler holds a map and adds Vary values to it
InitHdr ==
  /\ TreeIdle
  /\ SetIdle
  /\ ReadersIdle
  /\ hdrs \in InitialHeaders
  /\ hdrs0 = hdrs
  /\ added = <<>>

\* AddVary(hdrs, v, sgl) called with the singleton of v
AddVary(v) ==
  /\ Len(added) < MaxAdds
  /\ hdrs' = AddVaryResult(hdrs, v, <<v>>)
  /\ added' = Append(added, v)
  /\ UNCHANGED <<hdrs0, treeVars, setVars, readerVars>>

NextHdr == \E v \in HdrValues : AddVary(v)

SpecHdr == InitHdr /\ [][NextHdr]_vars

\* concurrent queries: a tree or a set has been built, and goroutines call
\* Contains on the tree, or Subsumes, String and Size on the set; the loops
\* of Contains and of Subsumes advance one iteration at a time
ReaderKeys == Patterns

\* the tree after its first Insert
InitBuiltTree ==
  /\ \E p \in Patterns, v \in Tags :
       /\ nodes = InsertResult(<<EmptyNode>>, p, v)
       /\ inserted = {<<p, v>>}
       /\ call = [op |-> "Insert", p |-> p, v |-> v]
  /\ ninserts = 1

\* the set after NewSortedSet
InitBuiltSet ==
  /\ elemsIn \in NameLists
  /\ \E zeroTail \in BOOLEAN : elems = CallerSliceAfter(elemsIn, zeroTail)
  /\ sortedSet = NewSortedSetResult(elemsIn)
  /\ built = TRUE
  /\ setCall = [op |-> "NewSortedSet", csv |-> <<>>]
  /\ subsumes = FALSE
  /\ combined = <<>>
  /\ size = 0

InitReaders ==
  /\ HdrIdle
  /\ ReadersIdle
  /\ \/ InitBuiltTree /\ SetIdle
     \/ TreeIdle /\ InitBuiltSet

\* every goroutine writes the one set of variables
WriteLocalsShared(ls, g, new) == [h \in DOMAIN ls |-> new]

\* a goroutine assigns to its own local variables
WriteLocals(ls, g, new) == [ls EXCEPT ![g] = new]

StartContains(g, k, v) ==
  /\ ninserts > 0
  /\ readers[g].pc = "idle"
  /\ readers' = [readers EXCEPT ![g] =
       [IdleReader EXCEPT !.pc = "run", !.op = "Contains", !.key = k, !.v = v]]
  /\ locals' = WriteLocals(locals, g, [NoLocals EXCEPT !.n = Root, !.search = k])
  /\ UNCHANGED <<treeVars, setVars, hdrVars>>

StepContains(g) ==
  /\ readers[g].pc = "run"
  /\ readers[g].op = "Contains"
  /\ LET r == ContainsStep(nodes, locals[g].n, locals[g].search, readers[g].v)
     IN IF r.done
        THEN /\ readers' = [readers EXCEPT ![g].pc = "done", ![g].found = r.found]
             /\ UNCHANGED locals
        ELSE /\ locals' = WriteLocals(locals, g, [locals[g] EXCEPT !.n = r.n, !.search = r.search])
             /\ UNCHANGED readers
  /\ UNCHANGED <<treeVars, setVars, hdrVars>>

StartSubsumes(g, csv) ==
  /\ built
  /\ readers[g].pc = "idle"
  /\ IF csv = <<>>
     THEN /\ readers' = [readers EXCEPT ![g] =
               [IdleReader EXCEPT !.pc = "done", !.op = "Subsumes", !.found = TRUE]]
          /\ UNCHANGED locals
     ELSE /\ readers' = [readers EXCEPT ![g] =
               [IdleReader EXCEPT !.pc = "run", !.op = "Subsumes", !.key = csv]]
          /\ locals' = WriteLocals(locals, g,
               [NoLocals EXCEPT !.search = csv, !.posOfLastNameSeen = -1])
  /\ UNCHANGED <<treeVars, setVars, hdrVars>>

StepSubsumes(g) ==
  /\ readers[g].pc = "run"
  /\ readers[g].op = "Subsumes"
  /\ LET r == SubsumesStep(sortedSet.m, sortedSet.maxLen + 1, locals[g].search,
                           locals[g].posOfLastNameSeen)
     IN IF r.done
        THEN /\ readers' = [readers EXCEPT ![g].pc = "done", ![g].found = r.result]
             /\ UNCHANGED locals
        ELSE /\ locals' = WriteLocals(locals, g,
                  [locals[g] EXCEPT !.search = r.csv,
                                    !.posOfLastNameSeen = r.posOfLastNameSeen])
             /\ UNCHANGED readers
  /\ UNCHANGED <<treeVars, setVars, hdrVars>>

ReadString(g) ==
  /\ built
  /\ readers[g].pc = "idle"
  /\ readers' = [readers EXCEPT ![g] =
       [IdleReader EXCEPT !.pc = "done", !.op = "String", !.str = String(sortedSet)]]
  /\ UNCHANGED <<locals, treeVars, setVars, hdrVars>>

ReadSize(g) ==
  /\ built
  /\ readers[g].pc = "idle"
  /\ readers' = [readers EXCEPT ![g] =
       [IdleReader EXCEPT !.pc = "done", !.op = "Size", !.num = Size(sortedSet)]]
  /\ UNCHANGED <<locals, treeVars, setVars, hdrVars>>

NextReaders ==
  \E g \in Goroutines :
    \/ \E k \in ReaderKeys, v \in Tags : StartContains(g, k, v)
    \/ StepContains(g)
    \/ \E csv \in Csvs : StartSubsumes(g, csv)
    \/ StepSubsumes(g)
    \/ ReadString(g)
    \/ ReadSize(g)

SpecReaders == InitReaders /\ [][NextReaders]_vars

\* ================================================================ claims
\* what a pattern matches: a pattern without a leading '*' matches the key
\* equal to it; "*"+s matches the keys x+s with x non-empty
Matches(p, k) ==
  IF HasStarPrefix(p)
  THEN Len(k) > Len(p) - 1 /\ HasSuffix(k, Tail(p))
  ELSE k = p

\* the part of a pattern that Insert walks down the tree
KeyPart(p) == IF HasStarPrefix(p) THEN Tail(p) ELSE p

\* C1: no false positives: Contains(k, v) is true only if some inserted pair
\* (p, t) has t = v or t = -1 and p matches k.
NoFalsePositives ==
  \A k \in Keys, v \in Tags :
    Contains(nodes, k, v) =>
      \E pr \in inserted : pr[2] \in {v, WildcardElem} /\ Matches(pr[1], k)

\* C2: no false negatives: for every pair (p, v) inserted at any point and
\* every key k that p matches, Contains(k, v) is true.
NoFalseNegatives ==
  \A pr \in inserted : \A k \in Keys :
    Matches(pr[1], k) => Contains(nodes, k, pr[2])

\* a wildcard pattern was inserted, a later insertion split a node, and a key
\* with a two-byte prefix before the pattern's suffix is found
NoFalseNegativesWitness ==
  /\ ninserts >= 2
  /\ Len(nodes) >= 4
  /\ \E pr \in inserted : \E k \in Keys :
       /\ HasStarPrefix(pr[1])
       /\ Len(k) >= Len(pr[1]) + 1
       /\ Matches(pr[1], k)
       /\ pr[2] # WildcardElem
       /\ <<pr[1], pr[2]>> # <<call.p, call.v>>
       /\ Contains(nodes, k, pr[2])

\* C3: once a pattern p has been inserted with tag -1, Contains(k, t) is true
\* for every key k that p matches and every tag t, whatever is inserted later.
MatchAllSentinel ==
  \A pr \in inserted : pr[2] = WildcardElem =>
    \A k \in Keys, t \in Tags : Matches(pr[1], k) => Contains(nodes, k, t)

\* a pattern inserted with -1 was inserted again with an ordinary tag, and a
\* key it matches is still found under another ordinary tag
MatchAllSentinelWitness ==
  /\ call.op = "Insert"
  /\ call.v # WildcardElem
  /\ <<call.p, WildcardElem>> \in inserted
  /\ \E k \in Keys, t \in Tags \ {call.v, WildcardElem} :
       Matches(call.p, k) /\ Contains(nodes, k, t)

\* --- reference notions for the sorted set, computed from the input list
ElemsOf(L) == {L[i] : i \in DOMAIN L}
HasComma(s) == \E i \in DOMAIN s : s[i] = Comma
\* rank of e among the distinct strings of S: how many are smaller
RankIn(S, e) == Cardinality({x \in S : Less(x, e)})

RECURSIVE SplitAtCommas(_)
\* the tokens of a string split at every comma
SplitAtCommas(s) ==
  IF ~HasComma(s) THEN <<s>>
  ELSE LET i == CHOOSE j \in DOMAIN s : s[j] = Comma /\ \A h \in 1..(j - 1) : s[h] # Comma
       IN <<SubSeq(s, 1, i - 1)>> \o SplitAtCommas(SubSeq(s, i + 1, Len(s)))

RefSubsumes(L, csv) ==
  \/ csv = <<>>
  \/ LET toks == SplitAtCommas(csv)
         S == ElemsOf(L)
     IN /\ \A i \in DOMAIN toks : toks[i] \in S
        /\ \A i \in 1..(Len(toks) - 1) : RankIn(S, toks[i]) < RankIn(S, toks[i + 1])

\* C4: Subsumes(csv) is true iff csv is empty, or its tokens (split at every
\* comma) are all elements of the set with strictly increasing ranks.
SubsumesAgreesWithReference ==
  setCall.op = "Subsumes" => (subsumes <=> RefSubsumes(elemsIn, setCall.csv))

\* Subsumes accepted a csv of two names
SubsumesAgreesWitness ==
  /\ setCall.op = "Subsumes"
  /\ subsumes
  /\ Len(SplitAtCommas(setCall.csv)) = 2
  /\ Len(setCall.csv) = 3

\* C5 as stated: for every string e that is not an element of L,
\* Subsumes(e) is false.
NonElementNotSubsumedAsStated ==
  (setCall.op = "Subsumes" /\ setCall.csv \notin ElemsOf(elemsIn)) => ~subsumes

\* C5 amended: for every non-empty string e without a comma that is not an
\* element of L, Subsumes(e) is false.
NonElementNotSubsumed ==
  (/\ setCall.op = "Subsumes"
   /\ setCall.csv \notin ElemsOf(elemsIn)
   /\ setCall.csv # <<>>
   /\ ~HasComma(setCall.csv)) => ~subsumes

\* a non-empty set was asked about a comma-free name it does not hold
NonElementNotSubsumedWitness ==
  /\ setCall.op = "Subsumes"
  /\ setCall.csv \notin ElemsOf(elemsIn)
  /\ setCall.csv # <<>>
  /\ ~HasComma(setCall.csv)
  /\ Size(sortedSet) = 2
  /\ ~subsumes

\* C6 as stated: for every list L, the set subsumes its own String().
RoundTripAsStated ==
  (setCall.op = "Subsumes" /\ setCall.csv = String(sortedSet)) => subsumes

\* C6 amended: for every list L whose elements contain no comma, the set
\* subsumes its own String().
RoundTrip ==
  (/\ setCall.op = "Subsumes"
   /\ setCall.csv = String(sortedSet)
   /\ \A e \in ElemsOf(elemsIn) : ~HasComma(e)) => subsumes

\* a set of two comma-free names was asked about its own serialization
RoundTripWitness ==
  /\ setCall.op = "Subsumes"
  /\ setCall.csv = String(sortedSet)
  /\ Size(sortedSet) = 2
  /\ \A e \in ElemsOf(elemsIn) : ~HasComma(e)
  /\ subsumes

StrictlyAscending(L) == \A i \in 1..(Len(L) - 1) : Less(L[i], L[i + 1])

\* C9 as stated: after NewSortedSet returns, the caller's sequence has the
\* same elements in the same order as before the call.
CallerSequenceUnchangedAsStated ==
  built => elems = elemsIn

\* C9 amended: NewSortedSet sorts and compacts the caller's sequence in
\* place: afterwards it has the same length, its first Size() entries are
\* the distinct elements in ascending order, and it is as before the call
\* if it was strictly ascending.
CallerSequenceSortedInPlace ==
  built =>
    /\ Len(elems) = Len(elemsIn)
    /\ Size(sortedSet) <= Len(elems)
    /\ \A i \in 1..Size(sortedSet) :
         /\ elems[i] \in ElemsOf(elemsIn)
         /\ RankIn(ElemsOf(elemsIn), elems[i]) = i - 1
    /\ StrictlyAscending(elemsIn) => elems = elemsIn

\* NewSortedSet returned and the caller's sequence is no longer what it was
CallerSequenceSortedInPlaceWitness ==
  /\ built
  /\ elems # elemsIn
  /\ Size(sortedSet) = 2

RECURSIVE RefJoin(_)
\* the strings of S in ascending order, joined by single commas
RefJoin(S) ==
  IF S = {} THEN <<>>
  ELSE LET least == CHOOSE x \in S : \A y \in S \ {x} : Less(x, y)
       IN IF S = {least} THEN least
          ELSE least \o <<Comma>> \o RefJoin(S \ {least})

\* C10: String() is the distinct elements in ascending order joined by single
\* commas, and so depends only on the set of distinct elements of the list.
StringIsCanonical ==
  setCall.op = "String" => combined = RefJoin(ElemsOf(elemsIn))

\* String was called on a set built from a list that was not ascending
StringIsCanonicalWitness ==
  /\ setCall.op = "String"
  /\ Len(elemsIn) = 2
  /\ Less(elemsIn[2], elemsIn[1])
  /\ combined = elemsIn[2] \o <<Comma>> \o elemsIn[1]

\* the walk of Insert(p, v) from node n with remaining key search reaches,
\* with a non-empty remaining key, a node whose wildcard set holds -1
RECURSIVE WalkMeetsSentinel(_, _, _, _)
WalkMeetsSentinel(ns, n, search, v) ==
  IF Len(search) = 0 THEN FALSE
  ELSE IF WildcardElem \in ns[n].wildcardSet THEN TRUE
  ELSE IF v \in ns[n].wildcardSet THEN FALSE
  ELSE LET m == ns[n].edges[lastByteIn(search)]
       IN IF m = Nil THEN FALSE
          ELSE IF ~HasSuffix(search, ns[m].suffix) THEN FALSE
          ELSE WalkMeetsSentinel(ns, m, splitRight(search, Len(ns[m].suffix))[1], v)

\* C7: if "*"+s has been inserted with tag v, a later Insert(x+s, v) or
\* Insert("*"+x+s, v) with x non-empty leaves the whole tree unchanged.
RedundantInsertIsNoOp ==
  [][(/\ call'.op = "Insert"
      /\ \E pr \in inserted :
           /\ HasStarPrefix(pr[1])
           /\ pr[2] = call'.v
           /\ Matches(pr[1], KeyPart(call'.p)))
     => nodes' = nodes]_vars

\* C8: if the walk of Insert(p, v) reaches, with a non-empty remaining key, a
\* node whose wildcard set contains -1, Insert leaves the tree unchanged.
SentinelShortCircuit ==
  [][(/\ call'.op = "Insert"
      /\ WalkMeetsSentinel(nodes, Root, KeyPart(call'.p), call'.v))
     => nodes' = nodes]_vars

\* lexicographic order of byte strings, said directly: the strings agree up
\* to a position where a ends and b goes on, or where a has the smaller byte
LexLess(a, b) ==
  \E i \in 1..(Len(a) + 1) :
    /\ i <= Len(b)
    /\ \A j \in 1..(i - 1) : a[j] = b[j]
    /\ (i = Len(a) + 1 \/ a[i] < b[i])

\* C11: NewSortedSet(L).Size() is the number of distinct elements of L, and
\* the ranks of the elements are exactly 0..Size()-1, without gaps or
\* repeats, in lexicographic order.
SizeAndRanks ==
  built =>
    LET S == ElemsOf(elemsIn)
        m == sortedSet.m
    IN /\ DOMAIN m = S
       /\ Size(sortedSet) = Cardinality(S)
       /\ {m[e] : e \in S} = 0..(Size(sortedSet) - 1)
       /\ \A e1, e2 \in S : e1 # e2 => m[e1] # m[e2]
       /\ \A e1, e2 \in S : LexLess(e1, e2) => m[e1] < m[e2]
       /\ (setCall.op = "Size" => size = Cardinality(S))

\* Size() has been called on a set built from a list of two equal elements
SizeAndRanksWitness ==
  /\ setCall.op = "Size"
  /\ size = 1
  /\ Len(elemsIn) = 2

RECURSIVE SubsumesLoopIsBounded(_, _, _, _, _)
\* the loop of Subsumes, followed for at most fuel iterations: every
\* iteration returns or leaves a strictly shorter csv; a comma is found only
\* among the first chunkSize bytes; with no comma among them the whole of
\* csv is the name looked up and the iteration returns
SubsumesLoopIsBounded(mp, chunkSize, csv, posOfLastNameSeen, fuel) ==
  LET r == SubsumesStep(mp, chunkSize, csv, posOfLastNameSeen)
      cut == cutAtComma(csv, chunkSize)
      window == 1..Min(Len(csv), chunkSize)
  IN /\ fuel > 0
     /\ (cut.found => Len(cut.before) < chunkSize)
     /\ ((\A i \in window : csv[i] # Comma) => r.done /\ ~cut.found /\ cut.before = csv)
     /\ \/ r.done
        \/ /\ Len(r.csv) < Len(csv)
           /\ SubsumesLoopIsBounded(mp, chunkSize, r.csv, r.posOfLastNameSeen, fuel - 1)

\* C12: Subsumes terminates on every csv: each iteration returns or goes on
\* with a strictly shorter csv, the comma search looks at no more than the
\* first maxLen+1 bytes, and with no comma in that window the whole
\* remainder is the last token and the loop ends in that iteration.
SubsumesTerminates ==
  (setCall.op = "Subsumes" /\ setCall.csv # <<>>) =>
    SubsumesLoopIsBounded(sortedSet.m, sortedSet.maxLen + 1, setCall.csv, -1,
                          Len(setCall.csv) + 1)

\* Subsumes has run on a csv that has a comma, but none within the window
SubsumesTerminatesWitness ==
  /\ setCall.op = "Subsumes"
  /\ HasComma(setCall.csv)
  /\ ~cutAtComma(setCall.csv, sortedSet.maxLen + 1).found

\* what the call of goroutine g returns when it runs alone
ResultAlone(g) ==
  CASE readers[g].op = "Contains" ->
         readers[g].found = Contains(nodes, readers[g].key, readers[g].v)
    [] readers[g].op = "Subsumes" ->
         readers[g].found = Subsumes(sortedSet, readers[g].key)
    [] readers[g].op = "String" -> readers[g].str = String(sortedSet)
    [] readers[g].op = "Size" -> readers[g].num = Size(sortedSet)
    [] OTHER -> FALSE

\* C13: the queries write nothing: while goroutines run Contains on a built
\* tree, or Subsumes, String and Size on a built set, in any interleaving,
\* the tree and the set stay as they were built, and every call returns
\* what it returns when run alone.
ReadersIndependent ==
  /\ ninserts > 0 => nodes = InsertResult(<<EmptyNode>>, call.p, call.v)
  /\ built => sortedSet = NewSortedSetResult(elemsIn)
  /\ \A g \in Goroutines : readers[g].pc = "done" => ResultAlone(g)

\* one goroutine's Subsumes has returned true on a csv of several names
\* while the other goroutine is in the middle of the loop on another csv
ReadersIndependentWitness ==
  /\ readers[1].pc = "done" /\ readers[1].op = "Subsumes"
  /\ readers[1].found /\ HasComma(readers[1].key)
  /\ readers[2].pc = "run" /\ readers[2].op = "Subsumes"
  /\ readers[2].key # readers[1].key
  /\ locals[2].search # readers[2].key

RECURSIVE FirstChange(_, _, _, _, _)
\* the first iteration of the loop of Insert that does not merely descend
FirstChange(ns, n, search, v, wildcardPattern) ==
  LET r == InsertStep(ns, n, search, v, wildcardPattern)
  IN IF r.kind = "descend"
     THEN FirstChange(r.ns, r.n, r.search, v, wildcardPattern)
     ELSE r

\* the iteration of Insert(p, v) on arena ns that changes the tree first
SplitOf(ns, p, v) == FirstChange(ns, Root, KeyPart(p), v, HasStarPrefix(p))

\* C15: when Insert meets a child whose suffix shares only a proper part with
\* the remaining key and the remaining key is longer than the overlap, it
\* creates one intermediate node and one leaf, tags that leaf only, and
\* stops: the tree after the call is the tree at the end of that iteration,
\* with two nodes more, and the pre-existing child keeps its tag sets and
\* its edges.
NodeSplitIsExact ==
  [][(/\ call'.op = "Insert"
      /\ SplitOf(nodes, call'.p, call'.v).kind = "splitLeaf")
     => LET r == SplitOf(nodes, call'.p, call'.v)
        IN /\ nodes' = r.ns
           /\ Len(nodes') = Len(nodes) + 2
           /\ nodes'[r.n].edges = nodes[r.n].edges
           /\ nodes'[r.n].set = nodes[r.n].set
           /\ nodes'[r.n].wildcardSet = nodes[r.n].wildcardSet]_vars

\* the labels of the edges of node n that lead to a child
ChildLabels(ns, n) == {b \in Bytes : ns[n].edges[b] # Nil}
Tagged(ns, n) == ns[n].set # {} \/ ns[n].wildcardSet # {}

\* C16: after any sequence of Insert calls every non-root node carries at
\* least one tag, in its regular or its wildcard set, or has at least two
\* children.
CompressedTrie ==
  \A n \in 2..Len(nodes) :
    Tagged(nodes, n) \/ Cardinality(ChildLabels(nodes, n)) >= 2

\* a split has left an untagged intermediate node with two children
CompressedTrieWitness ==
  /\ call.op = "Insert"
  /\ \E n \in 2..Len(nodes) :
       ~Tagged(nodes, n) /\ Cardinality(ChildLabels(nodes, n)) = 2

\* C17: after any sequence of Insert calls the root's suffix is empty and
\* every other node is stored in one edge map, under the last byte of its
\* non-empty suffix; hence the overlap computed at a matching edge is at
\* least 1.
EdgeLabels ==
  /\ nodes[Root].suffix = <<>>
  /\ \A m \in 2..Len(nodes) :
       Cardinality({nb \in (1..Len(nodes)) \X Bytes : nodes[nb[1]].edges[nb[2]] = m}) = 1
  /\ \A n \in 1..Len(nodes) : \A b \in ChildLabels(nodes, n) :
       LET m == nodes[n].edges[b]
       IN /\ m \in 2..Len(nodes)
          /\ Len(nodes[m].suffix) > 0
          /\ nodes[m].suffix[Len(nodes[m].suffix)] = b
          /\ \A search \in Patterns :
               (Len(search) > 0 /\ search[Len(search)] = b)
                 => lengthOfCommonSuffix(search, nodes[m].suffix) >= 1

\* a split has happened: a node other than the root has a child
EdgeLabelsWitness ==
  /\ call.op = "Insert"
  /\ \E n \in 2..Len(nodes) : ChildLabels(nodes, n) # {}

RECURSIVE InsertLoopIsBounded(_, _, _, _, _, _)
\* the loop of Insert, followed for at most fuel iterations: every iteration
\* returns or goes on with a strictly shorter search
InsertLoopIsBounded(ns, n, search, v, wildcardPattern, fuel) ==
  LET r == InsertStep(ns, n, search, v, wildcardPattern)
  IN /\ fuel > 0
     /\ \/ r.done
        \/ /\ Len(r.search) < Len(search)
           /\ InsertLoopIsBounded(r.ns, r.n, r.search, v, wildcardPattern, fuel - 1)

RECURSIVE ContainsLoopIsBounded(_, _, _, _, _)
\* the same for the loop of Contains
ContainsLoopIsBounded(ns, n, search, v, fuel) ==
  LET r == ContainsStep(ns, n, search, v)
  IN /\ fuel > 0
     /\ \/ r.done
        \/ /\ Len(r.search) < Len(search)
           /\ ContainsLoopIsBounded(ns, r.n, r.search, v, fuel - 1)

RECURSIVE ContainsIterations(_, _, _, _)
\* number of iterations the loop of Contains makes
ContainsIterations(ns, n, search, v) ==
  LET r == ContainsStep(ns, n, search, v)
  IN IF r.done THEN 1 ELSE 1 + ContainsIterations(ns, r.n, r.search, v)

\* C18: on every tree reachable by Insert calls, Insert and Contains
\* terminate for every key: each iteration returns or strictly shortens the
\* remaining search key, so there are at most key length plus one
\* iterations.
LoopsTerminate ==
  /\ \A p \in Patterns, v \in Tags :
       InsertLoopIsBounded(nodes, Root, KeyPart(p), v, HasStarPrefix(p), Len(KeyPart(p)) + 1)
  /\ \A k \in Keys, v \in Tags :
       ContainsLoopIsBounded(nodes, Root, k, v, Len(k) + 1)

\* after an Insert, some lookup goes through as many iterations as its key
\* has bytes, plus one
LoopsTerminateWitness ==
  /\ call.op = "Insert"
  /\ \E k \in Keys, v \in Tags :
       Len(k) >= 2 /\ ContainsIterations(nodes, Root, k, v) = Len(k) + 1

\* the sequences that list every element of S once
Perms(S) ==
  {s \in [1..Cardinality(S) -> S] : \A x \in S : \E i \in DOMAIN s : s[i] = x}

RECURSIVE TreeOf(_)
\* the tree built by the Insert calls of a sequence of (pattern, tag) pairs
TreeOf(s) ==
  IF Len(s) = 0 THEN <<EmptyNode>>
  ELSE LET last == s[Len(s)]
       IN InsertResult(TreeOf(SubSeq(s, 1, Len(s) - 1)), last[1], last[2])

\* C19: two sequences of Insert calls that are permutations of each other
\* build trees that give the same answer to Contains(k, v) for every key k
\* and tag v. (Stated for the calls made so far, when they are all
\* different: every order of them answers as the tree at hand does.)
OrderIndependent ==
  Cardinality(inserted) = ninserts =>
    \A s \in Perms(inserted) : \A k \in Keys, v \in Tags :
      Contains(TreeOf(s), k, v) = Contains(nodes, k, v)

\* C20: on any tree reachable by Insert calls, a second Insert(p, v) made
\* right after Insert(p, v) leaves nodes, suffixes, edges and tag sets as
\* they were after the first.
InsertIsIdempotent ==
  call.op = "Insert" => InsertResult(nodes, call.p, call.v) = nodes

\* the Insert just made was the second one and it split a node
InsertIsIdempotentWitness ==
  /\ call.op = "Insert"
  /\ ninserts = 2
  /\ Len(nodes) >= 4
====
